---- MODULE Spec2Model ----
(***************************************************************************)
(* The EPD4in2 panel driver (src/src/epd4in2/mod.rs) as a state machine.   *)
(*                                                                         *)
(* Every driver method is an operator that yields the list of bus          *)
(* instructions the method issues, in source order.  One driver call is    *)
(* the action that starts it, followed by one step per instruction; an     *)
(* SPI write may fail at any instruction, which is Rust's `?` returning    *)
(* the error.  The variable bus records what the mock SPI, the mock pins   *)
(* and the mock delay provider saw during the current (or last) call.      *)
(*                                                                         *)
(* Payload bytes are kept run-length encoded (a run is a byte value and a  *)
(* repeat count), so that a 15000 byte frame is a handful of runs and two  *)
(* payloads are equal exactly when their byte streams are equal.           *)
(***************************************************************************)
EXTENDS Integers, Sequences, FiniteSets, TLC

VARIABLES
    inst,      \* "none" | "live" | "dead": whether a driver instance exists
    color,     \* EPD4in2.color
    refresh,   \* EPD4in2.refresh
    op,        \* the driver call in progress, or the last one
    arg,       \* its arguments
    pc,        \* 0: no call in progress; i > 0: about to run instruction i
    result,    \* "none" while a call runs, then "Ok" | "Err" | "Panic"
    bus,       \* what the call has put on the bus so far
    sample,    \* the last level read from the busy pin: "unread" | "low" | "high"
    asleep,    \* the controller was put into deep sleep and not woken since
    refreshes, \* DISPLAY_REFRESH commands emitted since construction
    displays,  \* display_frame calls that returned Ok since construction
    pin_failed,   \* a GPIO read or write failed during the current (or last) call
    derived,      \* the panel whose display type carries #[derive(Graphics)]
    display2in9,  \* the generated struct Display2in9: buffer and rotation
    drawn         \* draw calls so far, and the pixel, rotation and buffer of the last

\* the driver instance and the call in progress
dvars == <<inst, color, refresh, op, arg, pc, result, bus, sample, asleep,
           refreshes, displays, pin_failed>>

\* the generated framebuffer
fbvars == <<derived, display2in9, drawn>>

vars == <<inst, color, refresh, op, arg, pc, result, bus, sample, asleep,
          refreshes, displays, pin_failed, derived, display2in9, drawn>>

---------------------------------------------------------------------------
(* Program constants *)

WIDTH == 400
HEIGHT == 300
DEFAULT_BACKGROUND_COLOR == "White"
IS_BUSY_LOW == TRUE

\* the busy pin's level while the controller is busy, and while it is idle
BusyLevel == IF IS_BUSY_LOW THEN "low" ELSE "high"
IdleLevel == IF IS_BUSY_LOW THEN "high" ELSE "low"

Colors == {"Black", "White"}
RefreshLUTs == {"FULL", "QUICK"}

\* Color::get_byte_value: all-ones for White, all-zeros for Black
get_byte_value(c) == IF c = "White" THEN 255 ELSE 0

\* How many display_frame calls a behaviour of the model may make
MaxDisplays == 2

---------------------------------------------------------------------------
(* What is seen on the bus *)

Cmd(c)    == [k |-> "cmd",   op |-> c,  b |-> 0, n |-> 0]
Run(b, n) == [k |-> "data",  op |-> "", b |-> b, n |-> n]
Tbl(t)    == [k |-> "table", op |-> t,  b |-> 0, n |-> 0]
WaitIdle  == [k |-> "wait",  op |-> "", b |-> 0, n |-> 0]
HwReset   == [k |-> "reset", op |-> "", b |-> 0, n |-> 0]
Delay(ms) == [k |-> "delay", op |-> "", b |-> 0, n |-> ms]

\* n data bytes of value b follow what is on the bus
AppendRun(tr, b, n) ==
    IF n = 0 THEN tr
    ELSE IF Len(tr) > 0 /\ tr[Len(tr)].k = "data" /\ tr[Len(tr)].b = b
         THEN [tr EXCEPT ![Len(tr)].n = @ + n]
         ELSE Append(tr, Run(b, n))

\* a payload (runs of bytes, or a constant table) follows what is on the bus
RECURSIVE AppendPayload(_, _)
AppendPayload(tr, payload) ==
    IF payload = <<>> THEN tr
    ELSE LET h == Head(payload) IN
         AppendPayload(IF h.k = "data" THEN AppendRun(tr, h.b, h.n)
                       ELSE Append(tr, h),
                       Tail(payload))

\* the payload of a literal byte array such as &[0x17, 0x17, 0x17]
RECURSIVE BytesFrom(_, _)
BytesFrom(acc, bs) ==
    IF bs = <<>> THEN acc ELSE BytesFrom(AppendRun(acc, Head(bs), 1), Tail(bs))

Bytes(bs) == BytesFrom(<<>>, bs)

\* buffer.len()
RECURSIVE PayloadLen(_)
PayloadLen(payload) ==
    IF payload = <<>> THEN 0 ELSE Head(payload).n + PayloadLen(Tail(payload))

\* u32 helpers: the low byte (`as u8`) and the second byte (`>> 8` then `as u8`)
\* of a value; -1 stands for the wrapped 0xFFFF_FFFF and yields 0xFF for both
lo8(v) == v % 256
hi8(v) == (v \div 256) % 256
and_f8(v) == ((v \div 8) % 32) * 8
or_07(v) == v - (v % 8) + 7

---------------------------------------------------------------------------
(* Bus instructions *)

NoI == [i |-> "", op |-> "", payload |-> <<>>, b |-> 0, n |-> 0]
ICmd(c)        == [NoI EXCEPT !.i = "cmd", !.op = c]
IData(p)       == [NoI EXCEPT !.i = "data", !.payload = p]
IDataX(b, n)   == [NoI EXCEPT !.i = "datax", !.b = b, !.n = n]
IWait          == [NoI EXCEPT !.i = "wait"]
IReset         == [NoI EXCEPT !.i = "reset"]
IDelay(ms)     == [NoI EXCEPT !.i = "delay", !.n = ms]
ISetRefresh(r) == [NoI EXCEPT !.i = "setrefresh", !.op = r]
IArith(ovf)    == [NoI EXCEPT !.i = "arith", !.n = IF ovf THEN 1 ELSE 0]

\* DisplayInterface
di_reset == <<IReset>>
di_cmd(c) == <<ICmd(c)>>
di_data(p) == <<IData(p)>>
di_data_x_times(b, n) == <<IDataX(b, n)>>
di_cmd_with_data(c, p) == di_cmd(c) \o di_data(p)
di_wait_until_idle == <<IWait>>
delay_ms(ms) == <<IDelay(ms)>>

\* what an instruction that succeeds adds to the bus
Emit(tr, ins) ==
    CASE ins.i = "cmd"   -> Append(tr, Cmd(ins.op))
      [] ins.i = "data"  -> AppendPayload(tr, ins.payload)
      [] ins.i = "datax" -> AppendRun(tr, ins.b, ins.n)
      [] ins.i = "wait"  -> Append(tr, WaitIdle)
      [] ins.i = "reset" -> Append(tr, HwReset)
      [] ins.i = "delay" -> Append(tr, Delay(ins.n))
      [] OTHER -> tr

\* what a list of instructions that all succeed adds to the bus
RECURSIVE EmitAll(_, _)
EmitAll(tr, prog) ==
    IF prog = <<>> THEN tr ELSE EmitAll(Emit(tr, Head(prog)), Tail(prog))

---------------------------------------------------------------------------
(* The LUT tables of constants.rs, each an opaque byte array *)

LUT_VCOM0 == <<Tbl("LUT_VCOM0")>>
LUT_WW == <<Tbl("LUT_WW")>>
LUT_BW == <<Tbl("LUT_BW")>>
LUT_WB == <<Tbl("LUT_WB")>>
LUT_BB == <<Tbl("LUT_BB")>>
LUT_VCOM0_QUICK == <<Tbl("LUT_VCOM0_QUICK")>>
LUT_WW_QUICK == <<Tbl("LUT_WW_QUICK")>>
LUT_BW_QUICK == <<Tbl("LUT_BW_QUICK")>>
LUT_WB_QUICK == <<Tbl("LUT_WB_QUICK")>>
LUT_BB_QUICK == <<Tbl("LUT_BB_QUICK")>>

---------------------------------------------------------------------------
(* EPD4in2: the instructions each method issues *)

wait_until_idle == di_wait_until_idle

width == WIDTH

height == HEIGHT

send_resolution ==
    LET w == width
        h == height
    IN  di_cmd("RESOLUTION_SETTING")
        \o di_data(Bytes(<<hi8(w)>>))
        \o di_data(Bytes(<<lo8(w)>>))
        \o di_data(Bytes(<<hi8(h)>>))
        \o di_data(Bytes(<<lo8(h)>>))

set_lut_helper(lut_vcom, lut_ww, lut_bw, lut_wb, lut_bb) ==
    di_cmd_with_data("LUT_FOR_VCOM", lut_vcom)
    \o di_cmd_with_data("LUT_WHITE_TO_WHITE", lut_ww)
    \o di_cmd_with_data("LUT_BLACK_TO_WHITE", lut_bw)
    \o di_cmd_with_data("LUT_WHITE_TO_BLACK", lut_wb)
    \o di_cmd_with_data("LUT_BLACK_TO_BLACK", lut_bb)
    \o di_wait_until_idle

\* Variant of set_lut: the full bundle is programmed whatever is stored
set_lut_always_full(self_refresh, refresh_rate) ==
    (IF refresh_rate # "None" THEN <<ISetRefresh(refresh_rate)>> ELSE <<>>)
    \o set_lut_helper(LUT_VCOM0, LUT_WW, LUT_BW, LUT_WB, LUT_BB)

\* self_refresh is self.refresh when the call starts; refresh_rate is "None"
\* or the RefreshLUT given
set_lut(self_refresh, refresh_rate) ==
    LET stored == IF refresh_rate # "None" THEN refresh_rate ELSE self_refresh
    IN  (IF refresh_rate # "None" THEN <<ISetRefresh(refresh_rate)>> ELSE <<>>)
        \o (IF stored = "FULL"
            THEN set_lut_helper(LUT_VCOM0, LUT_WW, LUT_BW, LUT_WB, LUT_BB)
            ELSE set_lut_helper(LUT_VCOM0_QUICK, LUT_WW_QUICK, LUT_BW_QUICK,
                                LUT_WB_QUICK, LUT_BB_QUICK))

\* Variant of init: the panel is configured before it is powered on
init_panel_first(self_refresh) ==
    di_reset
    \o di_cmd_with_data("POWER_SETTING", Bytes(<<3, 0, 43, 43, 255>>))
    \o di_cmd_with_data("BOOSTER_SOFT_START", Bytes(<<23, 23, 23>>))
    \o di_cmd_with_data("PANEL_SETTING", Bytes(<<63>>))
    \o di_cmd("POWER_ON")
    \o delay_ms(5)
    \o wait_until_idle
    \o di_cmd_with_data("PLL_CONTROL", Bytes(<<58>>))
    \o set_lut(self_refresh, "None")
    \o wait_until_idle

init(self_refresh) ==
    di_reset
    \o di_cmd_with_data("POWER_SETTING", Bytes(<<3, 0, 43, 43, 255>>))
    \o di_cmd_with_data("BOOSTER_SOFT_START", Bytes(<<23, 23, 23>>))
    \o di_cmd("POWER_ON")
    \o delay_ms(5)
    \o wait_until_idle
    \o di_cmd_with_data("PANEL_SETTING", Bytes(<<63>>))
    \o di_cmd_with_data("PLL_CONTROL", Bytes(<<58>>))
    \o set_lut(self_refresh, "None")
    \o wait_until_idle

\* new, after it has built the struct: epd.init(spi, delay)?; Ok(epd)
new(self_refresh) == init(self_refresh)

\* Variant of wake_up: the panel is re-initialised with the full bundle
wake_up_full(self_refresh) == init("FULL")

wake_up(self_refresh) == init(self_refresh)

\* Variant of sleep: DEEP_SLEEP follows POWER_OFF without waiting for idle
sleep_no_wait ==
    di_cmd_with_data("VCOM_AND_DATA_INTERVAL_SETTING", Bytes(<<23>>))
    \o di_cmd("VCM_DC_SETTING")
    \o di_cmd("PANEL_SETTING")
    \o di_cmd("POWER_SETTING")
    \o di_data(Bytes(<<0>>)) \o di_data(Bytes(<<0>>))
    \o di_data(Bytes(<<0>>)) \o di_data(Bytes(<<0>>))
    \o di_cmd("POWER_OFF")
    \o di_cmd_with_data("DEEP_SLEEP", Bytes(<<165>>))
    \o wait_until_idle

sleep ==
    di_cmd_with_data("VCOM_AND_DATA_INTERVAL_SETTING", Bytes(<<23>>))
    \o di_cmd("VCM_DC_SETTING")
    \o di_cmd("PANEL_SETTING")
    \o di_cmd("POWER_SETTING")
    \o di_data(Bytes(<<0>>)) \o di_data(Bytes(<<0>>))
    \o di_data(Bytes(<<0>>)) \o di_data(Bytes(<<0>>))
    \o di_cmd("POWER_OFF")
    \o wait_until_idle
    \o di_cmd_with_data("DEEP_SLEEP", Bytes(<<165>>))
    \o wait_until_idle

\* Variant of update_frame: the old frame is always sent as white
update_frame_white_old(self_color, buffer) ==
    send_resolution
    \o di_cmd_with_data("VCM_DC_SETTING", Bytes(<<18>>))
    \o di_cmd_with_data("VCOM_AND_DATA_INTERVAL_SETTING", Bytes(<<151>>))
    \o di_cmd("DATA_START_TRANSMISSION_1")
    \o di_data_x_times(255, (WIDTH \div 8) * HEIGHT)
    \o di_cmd_with_data("DATA_START_TRANSMISSION_2", buffer)
    \o wait_until_idle

update_frame(self_color, buffer) ==
    LET color_value == get_byte_value(self_color)
    IN  send_resolution
        \o di_cmd_with_data("VCM_DC_SETTING", Bytes(<<18>>))
        \o di_cmd_with_data("VCOM_AND_DATA_INTERVAL_SETTING", Bytes(<<151>>))
        \o di_cmd("DATA_START_TRANSMISSION_1")
        \o di_data_x_times(color_value, (WIDTH \div 8) * HEIGHT)
        \o di_cmd_with_data("DATA_START_TRANSMISSION_2", buffer)
        \o wait_until_idle

\* Variant of update_partial_frame: the left edge is sent as given
update_partial_frame_unmasked(buffer, x, y, w, h) ==
    LET tmp0 == and_f8(x)
        tmp  == tmp0 + w - 1
        bot  == y + h - 1
    IN  di_cmd("PARTIAL_IN")
        \o di_cmd("PARTIAL_WINDOW")
        \o di_data(Bytes(<<hi8(x)>>))
        \o di_data(Bytes(<<lo8(x)>>))
        \o <<IArith(tmp < 0)>>
        \o di_data(Bytes(<<hi8(tmp)>>))
        \o di_data(Bytes(<<lo8(or_07(tmp))>>))
        \o di_data(Bytes(<<hi8(y)>>))
        \o di_data(Bytes(<<lo8(y)>>))
        \o <<IArith(bot < 0)>>
        \o di_data(Bytes(<<hi8(bot)>>))
        \o di_data(Bytes(<<lo8(bot)>>))
        \o di_data(Bytes(<<1>>))
        \o di_cmd("DATA_START_TRANSMISSION_2")
        \o di_data(buffer)
        \o di_cmd("PARTIAL_OUT")
        \o wait_until_idle

\* Variant of update_partial_frame: the buffer goes to the old-frame register
update_partial_frame_dtm1(buffer, x, y, w, h) ==
    LET tmp0 == and_f8(x)
        tmp  == tmp0 + w - 1
        bot  == y + h - 1
    IN  di_cmd("PARTIAL_IN")
        \o di_cmd("PARTIAL_WINDOW")
        \o di_data(Bytes(<<hi8(x)>>))
        \o di_data(Bytes(<<lo8(tmp0)>>))
        \o <<IArith(tmp < 0)>>
        \o di_data(Bytes(<<hi8(tmp)>>))
        \o di_data(Bytes(<<lo8(or_07(tmp))>>))
        \o di_data(Bytes(<<hi8(y)>>))
        \o di_data(Bytes(<<lo8(y)>>))
        \o <<IArith(bot < 0)>>
        \o di_data(Bytes(<<hi8(bot)>>))
        \o di_data(Bytes(<<lo8(bot)>>))
        \o di_data(Bytes(<<1>>))
        \o di_cmd("DATA_START_TRANSMISSION_1")
        \o di_data(buffer)
        \o di_cmd("PARTIAL_OUT")
        \o wait_until_idle

\* The length test of lines 248-251 has an empty body: it issues nothing and
\* returns nothing.  x + w - 1 and y + h - 1 are u32 expressions: IArith is
\* the place where each is computed and says whether it leaves the u32 range.
update_partial_frame(buffer, x, y, w, h) ==
    LET tmp0 == and_f8(x)
        tmp  == tmp0 + w - 1
        bot  == y + h - 1
        is_dtm1 == FALSE
    IN  di_cmd("PARTIAL_IN")
        \o di_cmd("PARTIAL_WINDOW")
        \o di_data(Bytes(<<hi8(x)>>))
        \o di_data(Bytes(<<lo8(tmp0)>>))
        \o <<IArith(tmp < 0)>>
        \o di_data(Bytes(<<hi8(tmp)>>))
        \o di_data(Bytes(<<lo8(or_07(tmp))>>))
        \o di_data(Bytes(<<hi8(y)>>))
        \o di_data(Bytes(<<lo8(y)>>))
        \o <<IArith(bot < 0)>>
        \o di_data(Bytes(<<hi8(bot)>>))
        \o di_data(Bytes(<<lo8(bot)>>))
        \o di_data(Bytes(<<1>>))
        \o (IF is_dtm1 THEN di_cmd("DATA_START_TRANSMISSION_1")
                       ELSE di_cmd("DATA_START_TRANSMISSION_2"))
        \o di_data(buffer)
        \o di_cmd("PARTIAL_OUT")
        \o wait_until_idle

display_frame ==
    di_cmd("DISPLAY_REFRESH")
    \o wait_until_idle

\* Variant of clear_frame: the cleared frame is put on the panel at once
clear_frame_refreshing(self_color) ==
    LET color_value == get_byte_value(self_color)
    IN  send_resolution
        \o di_cmd("DATA_START_TRANSMISSION_1")
        \o di_data_x_times(color_value, (WIDTH \div 8) * HEIGHT)
        \o di_cmd("DATA_START_TRANSMISSION_2")
        \o di_data_x_times(color_value, (WIDTH \div 8) * HEIGHT)
        \o di_cmd("DISPLAY_REFRESH")
        \o wait_until_idle

\* Variant of clear_frame: the new frame's length has width and height swapped
clear_frame_swapped_len(self_color) ==
    LET color_value == get_byte_value(self_color)
    IN  send_resolution
        \o di_cmd("DATA_START_TRANSMISSION_1")
        \o di_data_x_times(color_value, (WIDTH \div 8) * HEIGHT)
        \o di_cmd("DATA_START_TRANSMISSION_2")
        \o di_data_x_times(color_value, (HEIGHT \div 8) * WIDTH)
        \o wait_until_idle

clear_frame(self_color) ==
    LET color_value == get_byte_value(self_color)
    IN  send_resolution
        \o di_cmd("DATA_START_TRANSMISSION_1")
        \o di_data_x_times(color_value, (WIDTH \div 8) * HEIGHT)
        \o di_cmd("DATA_START_TRANSMISSION_2")
        \o di_data_x_times(color_value, (WIDTH \div 8) * HEIGHT)
        \o wait_until_idle

---------------------------------------------------------------------------
(* Arguments the model calls the driver with *)

FrameLen == (WIDTH \div 8) * HEIGHT

\* a frame buffer of n bytes, all equal to b
Fill(b, n) == AppendRun(<<>>, b, n)

FrameBuffers ==
    { Fill(255, FrameLen), Fill(0, FrameLen),
      AppendRun(Fill(255, FrameLen \div 2), 0, FrameLen \div 2),
      Fill(170, 8), <<>> }

PartialBuffers == { Fill(170, 8), Bytes(<<1, 2, 3>>) }
PartialX == {0, 3, 256}
PartialY == {0, 10}
PartialW == {0, 16}
PartialH == {0, 4}

NoArg == [buffer |-> <<>>, x |-> 0, y |-> 0, w |-> 0, h |-> 0, opt |-> "None"]

---------------------------------------------------------------------------
(* The generated framebuffer (src/graphics_derive/src/lib.rs) *)

\* use crate::epd2in9::{DEFAULT_BACKGROUND_COLOR, HEIGHT, WIDTH}: the generated
\* code names the 2.9 inch panel's constants, whatever type it is derived on
EPD2IN9_WIDTH == 128
EPD2IN9_HEIGHT == 296
EPD2IN9_DEFAULT_BACKGROUND_COLOR == "White"

\* the panels whose display type can carry the derive
Panels == {"epd2in9", "epd4in2"}

DisplayRotations == {"Rotate0", "Rotate90", "Rotate180", "Rotate270"}
DisplayRotation_default == "Rotate0"

\* [b; n]: an array of n bytes b, kept as its length, the byte it was filled
\* with and the bytes that differ from it (index -> byte, from index 0)
Array(b, n) == [len |-> n, fill |-> b, diff |-> <<>>]

ByteAt(buf, i) == IF i \in DOMAIN buf.diff THEN buf.diff[i] ELSE buf.fill

StoreByte(buf, i, b) ==
    LET d == (DOMAIN buf.diff \ {i}) \cup (IF b = buf.fill THEN {} ELSE {i})
    IN  [buf EXCEPT !.diff = [j \in d |-> IF j = i THEN b ELSE buf.diff[j]]]

\* impl Default for Display2in9
Display2in9_default ==
    [buffer |-> Array(get_byte_value(EPD2IN9_DEFAULT_BACKGROUND_COLOR),
                      (EPD2IN9_WIDTH * EPD2IN9_HEIGHT) \div 8),
     rotation |-> DisplayRotation_default]

\* the panel-native (u, v) of the logical (x, y) under rotation r
find_position(x, y, pw, ph, r) ==
    CASE r = "Rotate0"   -> [u |-> x,          v |-> y]
      [] r = "Rotate90"  -> [u |-> pw - 1 - y, v |-> x]
      [] r = "Rotate180" -> [u |-> pw - 1 - x, v |-> ph - 1 - y]
      [] r = "Rotate270" -> [u |-> y,          v |-> ph - 1 - x]

outside_display(x, y, pw, ph, r) ==
    LET p == find_position(x, y, pw, ph, r)
    IN  p.u < 0 \/ p.u >= pw \/ p.v < 0 \/ p.v >= ph

\* one pixel of draw_helper: skipped when outside, else one bit of one byte
\* is set (White) or cleared (Black), most significant bit first
draw_helper(buf, pw, ph, r, pixel) ==
    IF outside_display(pixel.x, pixel.y, pw, ph, r) THEN buf
    ELSE LET p == find_position(pixel.x, pixel.y, pw, ph, r)
             i == (p.u \div 8) + p.v * (pw \div 8)
             mask == 2 ^ (7 - (p.u % 8))
             old == ByteAt(buf, i)
             isset == (old \div mask) % 2 = 1
         IN  StoreByte(buf, i,
                 IF pixel.c = "White"
                 THEN (IF isset THEN old ELSE old + mask)
                 ELSE (IF isset THEN old - mask ELSE old))

\* Drawing::draw: self.draw_helper(WIDTH, HEIGHT, item_pixels), with the
\* imported WIDTH and HEIGHT
draw(self, pixel) ==
    [self EXCEPT !.buffer =
        draw_helper(self.buffer, EPD2IN9_WIDTH, EPD2IN9_HEIGHT,
                    self.rotation, pixel)]

\* Display::set_rotation
set_rotation(self, r) == [self EXCEPT !.rotation = r]

MaxDraws == 2

FbPixels ==
    { [x |-> q[1], y |-> q[2], c |-> c] :
        q \in {<<0, 0>>, <<5, 1>>, <<127, 295>>, <<295, 127>>, <<399, 299>>},
        c \in Colors }

NoPixel == [x |-> 0, y |-> 0, c |-> "White"]

---------------------------------------------------------------------------
(* The state machine *)

Init ==
    /\ inst = "none"
    /\ color = DEFAULT_BACKGROUND_COLOR
    /\ refresh = "FULL"
    /\ op = "none"
    /\ arg = NoArg
    /\ pc = 0
    /\ result = "none"
    /\ bus = <<>>
    /\ sample = "unread"
    /\ asleep = FALSE
    /\ refreshes = 0
    /\ displays = 0
    /\ pin_failed = FALSE
    /\ derived = "none"
    /\ display2in9 = Display2in9_default
    /\ drawn = [n |-> 0, pixel |-> NoPixel, rotation |-> DisplayRotation_default,
                before |-> Display2in9_default.buffer]

\* the instructions of the call in progress
Program ==
    CASE op = "new" -> new(refresh)
      [] op = "wake_up" -> wake_up(refresh)
      [] op = "sleep" -> sleep
      [] op = "update_frame" -> update_frame(color, arg.buffer)
      [] op = "update_partial_frame" ->
            update_partial_frame(arg.buffer, arg.x, arg.y, arg.w, arg.h)
      [] op = "display_frame" -> display_frame
      [] op = "clear_frame" -> clear_frame(color)
      [] op = "set_lut" -> set_lut(refresh, arg.opt)
      [] OTHER -> <<>>

Running == pc >= 1 /\ pc <= Len(Program)

Instr == Program[pc]

\* a call of method m with arguments a starts
Start(m, a) ==
    /\ pc = 0
    /\ op' = m
    /\ arg' = a
    /\ pc' = 1
    /\ result' = "none"
    /\ bus' = <<>>
    /\ pin_failed' = FALSE

\* Variant of new: the instance starts with the quick LUT selected
Call_new_quick ==
    /\ inst = "none"
    /\ Start("new", NoArg)
    /\ color' = DEFAULT_BACKGROUND_COLOR
    /\ refresh' = "QUICK"
    /\ asleep' = FALSE
    /\ refreshes' = 0
    /\ displays' = 0
    /\ UNCHANGED <<inst, sample>>
    /\ UNCHANGED fbvars

Call_new ==
    /\ inst = "none"
    /\ Start("new", NoArg)
    /\ color' = DEFAULT_BACKGROUND_COLOR
    /\ refresh' = "FULL"
    /\ asleep' = FALSE
    /\ refreshes' = 0
    /\ displays' = 0
    /\ UNCHANGED <<inst, sample>>
    /\ UNCHANGED fbvars

Call_wake_up ==
    /\ inst = "live"
    /\ Start("wake_up", NoArg)
    /\ asleep' = FALSE
    /\ UNCHANGED <<inst, color, refresh, sample, refreshes, displays>>
    /\ UNCHANGED fbvars

Call_sleep ==
    /\ inst = "live"
    /\ Start("sleep", NoArg)
    /\ UNCHANGED <<inst, color, refresh, sample, asleep, refreshes, displays>>
    /\ UNCHANGED fbvars

Call_update_frame ==
    /\ inst = "live"
    /\ \E buffer \in FrameBuffers :
           Start("update_frame", [NoArg EXCEPT !.buffer = buffer])
    /\ UNCHANGED <<inst, color, refresh, sample, asleep, refreshes, displays>>
    /\ UNCHANGED fbvars

Call_update_partial_frame ==
    /\ inst = "live"
    /\ \E buffer \in PartialBuffers, x \in PartialX, y \in PartialY,
          w \in PartialW, h \in PartialH :
           Start("update_partial_frame",
                 [NoArg EXCEPT !.buffer = buffer, !.x = x, !.y = y,
                               !.w = w, !.h = h])
    /\ UNCHANGED <<inst, color, refresh, sample, asleep, refreshes, displays>>
    /\ UNCHANGED fbvars

Call_display_frame ==
    /\ inst = "live"
    /\ refreshes < MaxDisplays
    /\ Start("display_frame", NoArg)
    /\ UNCHANGED <<inst, color, refresh, sample, asleep, refreshes, displays>>
    /\ UNCHANGED fbvars

Call_clear_frame ==
    /\ inst = "live"
    /\ Start("clear_frame", NoArg)
    /\ UNCHANGED <<inst, color, refresh, sample, asleep, refreshes, displays>>
    /\ UNCHANGED fbvars

Call_set_lut ==
    /\ inst = "live"
    /\ \E opt \in RefreshLUTs \cup {"None"} :
           Start("set_lut", [NoArg EXCEPT !.opt = opt])
    /\ UNCHANGED <<inst, color, refresh, sample, asleep, refreshes, displays>>
    /\ UNCHANGED fbvars

\* set_background_color touches no pin and no bus: it is one step
set_background_color ==
    /\ inst = "live"
    /\ pc = 0
    /\ \E c \in Colors : color' = c
    /\ op' = "set_background_color"
    /\ arg' = NoArg
    /\ result' = "Ok"
    /\ bus' = <<>>
    /\ UNCHANGED <<inst, refresh, pc, sample, asleep, refreshes, displays>>
    /\ pin_failed' = FALSE
    /\ UNCHANGED fbvars

\* di.cmd: one SPI write of the opcode, which succeeds
StepCmd ==
    /\ Running
    /\ Instr.i = "cmd"
    /\ bus' = Emit(bus, Instr)
    /\ refreshes' = IF Instr.op = "DISPLAY_REFRESH" THEN refreshes + 1
                                                    ELSE refreshes
    /\ pc' = pc + 1
    /\ UNCHANGED <<inst, color, refresh, op, arg, result, sample, asleep,
                   displays>>
    /\ UNCHANGED <<pin_failed, derived, display2in9, drawn>>

\* di.data: one SPI write of the slice, which succeeds
StepData ==
    /\ Running
    /\ Instr.i = "data"
    /\ bus' = Emit(bus, Instr)
    /\ pc' = pc + 1
    /\ UNCHANGED <<inst, color, refresh, op, arg, result, sample, asleep,
                   refreshes, displays>>
    /\ UNCHANGED <<pin_failed, derived, display2in9, drawn>>

\* di.data_x_times: n SPI writes of one byte, all of which succeed
StepDataX ==
    /\ Running
    /\ Instr.i = "datax"
    /\ bus' = Emit(bus, Instr)
    /\ pc' = pc + 1
    /\ UNCHANGED <<inst, color, refresh, op, arg, result, sample, asleep,
                   refreshes, displays>>
    /\ UNCHANGED <<pin_failed, derived, display2in9, drawn>>

\* Variant of SpiFail: a failed write puts the stored settings back to their
\* defaults
SpiFail_restore_defaults ==
    /\ pc >= 1 /\ pc <= Len(Program)
    /\ Program[pc].i \in {"cmd", "data", "datax"}
    /\ bus' = bus
    /\ result' = "Err"
    /\ pc' = 0
    /\ inst' = IF op = "new" THEN "none" ELSE inst
    /\ color' = DEFAULT_BACKGROUND_COLOR
    /\ refresh' = "FULL"
    /\ UNCHANGED <<op, arg, sample, asleep, refreshes, displays>>
    /\ UNCHANGED <<pin_failed, derived, display2in9, drawn>>

\* An SPI write fails: `?` returns the error from the method.  A failed
\* write puts nothing on the bus; of the n writes of data_x_times, those
\* before the failed one have gone out.  new's instance is dropped.
SpiFail ==
    /\ Running
    /\ Instr.i \in {"cmd", "data", "datax"}
    /\ \E sent \in {0, 1, Instr.n - 1} :
          /\ sent >= 0
          /\ Instr.i = "datax" \/ sent = 0
          /\ bus' = AppendRun(bus, Instr.b, sent)
    /\ result' = "Err"
    /\ pc' = 0
    /\ inst' = IF op = "new" THEN "none" ELSE inst
    /\ UNCHANGED <<color, refresh, op, arg, sample, asleep, refreshes,
                   displays>>
    /\ UNCHANGED <<pin_failed, derived, display2in9, drawn>>

\* di.wait_until_idle: the busy pin is sampled and reads busy
PollBusy ==
    /\ Running
    /\ Instr.i = "wait"
    /\ sample' = BusyLevel
    /\ UNCHANGED <<inst, color, refresh, op, arg, pc, result, bus, asleep,
                   refreshes, displays>>
    /\ UNCHANGED <<pin_failed, derived, display2in9, drawn>>

\* di.wait_until_idle: the busy pin is sampled and reads idle; the loop ends
PollIdle ==
    /\ Running
    /\ Instr.i = "wait"
    /\ sample' = IdleLevel
    /\ bus' = Emit(bus, Instr)
    /\ pc' = pc + 1
    /\ UNCHANGED <<inst, color, refresh, op, arg, result, asleep, refreshes,
                   displays>>
    /\ UNCHANGED <<pin_failed, derived, display2in9, drawn>>

\* di.reset
StepReset ==
    /\ Running
    /\ Instr.i = "reset"
    /\ bus' = Emit(bus, Instr)
    /\ pc' = pc + 1
    /\ UNCHANGED <<inst, color, refresh, op, arg, result, sample, asleep,
                   refreshes, displays>>
    /\ UNCHANGED <<pin_failed, derived, display2in9, drawn>>

\* delay.delay_ms
StepDelay ==
    /\ Running
    /\ Instr.i = "delay"
    /\ bus' = Emit(bus, Instr)
    /\ pc' = pc + 1
    /\ UNCHANGED <<inst, color, refresh, op, arg, result, sample, asleep,
                   refreshes, displays>>
    /\ UNCHANGED <<pin_failed, derived, display2in9, drawn>>

\* self.refresh = refresh_lut
StepSetRefresh ==
    /\ Running
    /\ Instr.i = "setrefresh"
    /\ refresh' = Instr.op
    /\ pc' = pc + 1
    /\ UNCHANGED <<inst, color, op, arg, result, bus, sample, asleep,
                   refreshes, displays>>
    /\ UNCHANGED <<pin_failed, derived, display2in9, drawn>>

\* a u32 expression is computed: in range, or out of range in a build
\* without overflow checks, where it wraps
StepArith ==
    /\ Running
    /\ Instr.i = "arith"
    /\ pc' = pc + 1
    /\ UNCHANGED <<inst, color, refresh, op, arg, result, bus, sample, asleep,
                   refreshes, displays>>
    /\ UNCHANGED <<pin_failed, derived, display2in9, drawn>>

\* a u32 expression leaves the u32 range in a build with overflow checks
ArithPanic ==
    /\ Running
    /\ Instr.i = "arith"
    /\ Instr.n = 1
    /\ result' = "Panic"
    /\ pc' = 0
    /\ inst' = "dead"
    /\ UNCHANGED <<color, refresh, op, arg, bus, sample, asleep, refreshes,
                   displays>>
    /\ UNCHANGED <<pin_failed, derived, display2in9, drawn>>

\* the method reaches its Ok(())
Return ==
    /\ pc = Len(Program) + 1
    /\ result' = "Ok"
    /\ pc' = 0
    /\ inst' = IF op = "new" THEN "live" ELSE inst
    /\ asleep' = IF op = "sleep" THEN TRUE ELSE asleep
    /\ displays' = IF op = "display_frame" THEN displays + 1 ELSE displays
    /\ UNCHANGED <<color, refresh, op, arg, bus, sample, refreshes>>
    /\ UNCHANGED <<pin_failed, derived, display2in9, drawn>>

Next ==
    \/ Call_new
    \/ Call_wake_up
    \/ Call_sleep
    \/ Call_update_frame
    \/ Call_update_partial_frame
    \/ Call_display_frame
    \/ Call_clear_frame
    \/ Call_set_lut
    \/ set_background_color
    \/ StepCmd
    \/ StepData
    \/ StepDataX
    \/ SpiFail
    \/ PollBusy
    \/ PollIdle
    \/ StepReset
    \/ StepDelay
    \/ StepSetRefresh
    \/ StepArith
    \/ ArithPanic
    \/ Return

Spec == Init /\ [][Next]_vars

---------------------------------------------------------------------------
(* The framebuffer as a state machine *)

\* #[derive(Graphics)] on the display type of a panel, and Default::default()
Derive ==
    /\ derived = "none"
    /\ \E panel \in Panels : derived' = panel
    /\ display2in9' = Display2in9_default
    /\ UNCHANGED drawn
    /\ UNCHANGED dvars

Call_set_rotation ==
    /\ derived # "none"
    /\ \E r \in DisplayRotations : display2in9' = set_rotation(display2in9, r)
    /\ UNCHANGED <<derived, drawn>>
    /\ UNCHANGED dvars

Call_draw ==
    /\ derived # "none"
    /\ drawn.n < MaxDraws
    /\ \E pixel \in FbPixels :
          /\ display2in9' = draw(display2in9, pixel)
          /\ drawn' = [n |-> drawn.n + 1, pixel |-> pixel,
                       rotation |-> display2in9.rotation,
                       before |-> display2in9.buffer]
    /\ UNCHANGED derived
    /\ UNCHANGED dvars

FbNext ==
    \/ Derive
    \/ Call_set_rotation
    \/ Call_draw

FbSpec == Init /\ [][FbNext]_vars

---------------------------------------------------------------------------
(* The driver with failing pins *)

\* A GPIO call fails inside di.reset (the reset pin) or inside
\* di.wait_until_idle (the busy pin).  init calls `self.di.reset(delay);`
\* without `?`, and wait_until_idle returns (): neither can hand the failure
\* to the method, which goes on with the instruction.
PinFail ==
    /\ Running
    /\ Instr.i \in {"reset", "wait"}
    /\ ~pin_failed
    /\ pin_failed' = TRUE
    /\ UNCHANGED <<inst, color, refresh, op, arg, pc, result, bus, sample,
                   asleep, refreshes, displays>>
    /\ UNCHANGED fbvars

PinNext ==
    \/ Next
    \/ PinFail

PinSpec == Init /\ [][PinNext]_vars

---------------------------------------------------------------------------
(* The driver with a panel that answers *)

\* the call in progress goes on: every SPI write returns (with or without
\* an error), the delay provider returns, and a poll reads the idle level
Advance ==
    \/ StepCmd
    \/ StepData
    \/ StepDataX
    \/ SpiFail
    \/ PollIdle
    \/ StepReset
    \/ StepDelay
    \/ StepSetRefresh
    \/ StepArith
    \/ ArithPanic
    \/ Return

LiveSpec == Init /\ [][Next]_vars /\ WF_vars(Advance)

---------------------------------------------------------------------------
(* Properties *)

\* method m has returned Ok(..) and no other call has started since
Returned(m) == op = m /\ pc = 0 /\ result = "Ok"

\* command c is on the bus
HasCmd(tr, c) == \E i \in 1..Len(tr) : tr[i] = Cmd(c)

\* the five LUT commands, each with its table, of bundle r
LutTrace(r) ==
    IF r = "FULL"
    THEN << Cmd("LUT_FOR_VCOM"), Tbl("LUT_VCOM0"),
            Cmd("LUT_WHITE_TO_WHITE"), Tbl("LUT_WW"),
            Cmd("LUT_BLACK_TO_WHITE"), Tbl("LUT_BW"),
            Cmd("LUT_WHITE_TO_BLACK"), Tbl("LUT_WB"),
            Cmd("LUT_BLACK_TO_BLACK"), Tbl("LUT_BB") >>
    ELSE << Cmd("LUT_FOR_VCOM"), Tbl("LUT_VCOM0_QUICK"),
            Cmd("LUT_WHITE_TO_WHITE"), Tbl("LUT_WW_QUICK"),
            Cmd("LUT_BLACK_TO_WHITE"), Tbl("LUT_BW_QUICK"),
            Cmd("LUT_WHITE_TO_BLACK"), Tbl("LUT_WB_QUICK"),
            Cmd("LUT_BLACK_TO_BLACK"), Tbl("LUT_BB_QUICK") >>

\* The init sequence with bundle r.  The LUT programming ends with its own
\* wait-until-idle (set_lut_helper) and init's follows it directly: two
\* polls of the busy line with no command between them.
InitTrace(r) ==
    << HwReset, Cmd("POWER_SETTING") >>
    \o << Run(3, 1), Run(0, 1), Run(43, 2), Run(255, 1) >>
    \o << Cmd("BOOSTER_SOFT_START"), Run(23, 3) >>
    \o << Cmd("POWER_ON"), Delay(5), WaitIdle >>
    \o << Cmd("PANEL_SETTING"), Run(63, 1) >>
    \o << Cmd("PLL_CONTROL"), Run(58, 1) >>
    \o LutTrace(r)
    \o << WaitIdle, WaitIdle >>

\* C1: every successful init, started by new or by wake_up, has put on the
\* bus exactly: hardware reset, POWER_SETTING 03 00 2b 2b ff,
\* BOOSTER_SOFT_START 17 17 17, POWER_ON, a 5 ms delay, wait-until-idle,
\* PANEL_SETTING 3F, PLL_CONTROL 3A, the five LUT tables of the stored
\* bundle, wait-until-idle; and nothing else.
C1_InitSequence ==
    (Returned("new") \/ Returned("wake_up")) => bus = InitTrace(refresh)

C1_Witness ==
    /\ Returned("wake_up")
    /\ refresh = "QUICK"
    /\ HasCmd(bus, "LUT_BLACK_TO_BLACK")

\* C2: when new returns Ok the whole init sequence has gone out with the
\* Full bundle, the last busy sample read idle, the background is White and
\* the RefreshLUT is Full; when an SPI write fails new returns Err and there
\* is no instance.
C2_NewResult ==
    /\ Returned("new") =>
          /\ bus = InitTrace("FULL")
          /\ sample = "high"
          /\ color = "White"
          /\ refresh = "FULL"
          /\ inst = "live"
    /\ (op = "new" /\ pc = 0 /\ bus # InitTrace("FULL")) =>
          result = "Err" /\ inst = "none"
    /\ (op = "new" /\ result = "Err") => inst = "none"

C2_Witness ==
    Returned("new") /\ inst = "live" /\ sample = "high" /\ bus # <<>>

\* C3: every successful update_frame(buffer) has put on the bus exactly:
\* RESOLUTION_SETTING 01 90 01 2C, VCM_DC_SETTING (12),
\* VCOM_AND_DATA_INTERVAL_SETTING (97), DATA_START_TRANSMISSION_1 and 15000
\* bytes of the stored background color, DATA_START_TRANSMISSION_2 and the
\* bytes of buffer, wait-until-idle.
C3_UpdateFrameSequence ==
    Returned("update_frame") =>
        bus = << Cmd("RESOLUTION_SETTING") >>
              \o << Run(1, 1), Run(144, 1), Run(1, 1), Run(44, 1) >>
              \o << Cmd("VCM_DC_SETTING"), Run(18, 1) >>
              \o << Cmd("VCOM_AND_DATA_INTERVAL_SETTING"), Run(151, 1) >>
              \o << Cmd("DATA_START_TRANSMISSION_1"),
                    Run(IF color = "White" THEN 255 ELSE 0, 15000) >>
              \o << Cmd("DATA_START_TRANSMISSION_2") >>
              \o arg.buffer
              \o << WaitIdle >>

C3_Witness ==
    Returned("update_frame") /\ color = "Black" /\ Len(arg.buffer) = 2

\* C4: DISPLAY_REFRESH is on the bus of no call but display_frame; a
\* successful display_frame has put on the bus exactly DISPLAY_REFRESH and a
\* wait-until-idle; and the DISPLAY_REFRESH commands emitted since
\* construction are one per display_frame call that got past its command.
C4_RefreshOnlyByDisplayFrame ==
    /\ HasCmd(bus, "DISPLAY_REFRESH") => op = "display_frame"
    /\ Returned("display_frame") =>
          bus = << Cmd("DISPLAY_REFRESH"), WaitIdle >>
    /\ refreshes = displays
                   + (IF op = "display_frame" /\ pc > 1 THEN 1 ELSE 0)

C4_Witness ==
    /\ Returned("update_frame")
    /\ displays = 1
    /\ refreshes = 1
    /\ ~HasCmd(bus, "DISPLAY_REFRESH")

\* tr without the commands in cs and the data that follows each
RECURSIVE WithoutCmds(_, _, _)
WithoutCmds(tr, cs, dropping) ==
    IF tr = <<>> THEN <<>>
    ELSE LET h == Head(tr) IN
         IF h.k = "cmd" /\ h.op \in cs THEN WithoutCmds(Tail(tr), cs, TRUE)
         ELSE IF h.k \in {"data", "table"} /\ dropping
              THEN WithoutCmds(Tail(tr), cs, TRUE)
              ELSE <<h>> \o WithoutCmds(Tail(tr), cs, FALSE)

\* what update_frame puts on the bus for a buffer of 15000 background bytes
UpdateWithBackground ==
    EmitAll(<<>>, update_frame(color, Fill(get_byte_value(color), 15000)))

\* C5 as stated: clear_frame puts on the bus what update_frame does for a
\* buffer of 15000 background bytes, VCM_DC_SETTING and
\* VCOM_AND_DATA_INTERVAL_SETTING included.
C5_ClearEqualsUpdate ==
    Returned("clear_frame") => bus = UpdateWithBackground

\* C5 amended: clear_frame puts on the bus what update_frame does for a
\* buffer of 15000 background bytes less the VCM_DC_SETTING and
\* VCOM_AND_DATA_INTERVAL_SETTING commands and their data, which is
\* RESOLUTION_SETTING 01 90 01 2C, DATA_START_TRANSMISSION_1 and 15000
\* background bytes, DATA_START_TRANSMISSION_2 and 15000 background bytes,
\* wait-until-idle.
C5_ClearEqualsUpdateLessVcom ==
    Returned("clear_frame") =>
        /\ bus = WithoutCmds(UpdateWithBackground,
                             {"VCM_DC_SETTING",
                              "VCOM_AND_DATA_INTERVAL_SETTING"}, FALSE)
        /\ bus = << Cmd("RESOLUTION_SETTING"),
                    Run(1, 1), Run(144, 1), Run(1, 1), Run(44, 1),
                    Cmd("DATA_START_TRANSMISSION_1"),
                    Run(IF color = "White" THEN 255 ELSE 0, 15000),
                    Cmd("DATA_START_TRANSMISSION_2"),
                    Run(IF color = "White" THEN 255 ELSE 0, 15000),
                    WaitIdle >>

C5_Witness == Returned("clear_frame") /\ color = "Black" /\ Len(bus) = 10

\* the place of the first command c on the bus
CmdAt(tr, c) ==
    CHOOSE i \in 1..Len(tr) :
        tr[i] = Cmd(c) /\ \A j \in 1..(i - 1) : tr[j] # Cmd(c)

\* the data between PARTIAL_WINDOW and DATA_START_TRANSMISSION_2
PartialWindow(tr) ==
    SubSeq(tr, CmdAt(tr, "PARTIAL_WINDOW") + 1,
               CmdAt(tr, "DATA_START_TRANSMISSION_2") - 1)

\* C6 as stated: the nine bytes after PARTIAL_WINDOW are x_hi, x_lo & 0xF8,
\* (x+w-1)_hi, (x+w-1)_lo | 0x07, y_hi, y_lo, (y+h-1)_hi, (y+h-1)_lo, 0x01,
\* the right edge taken from the caller's x; x=3, y=10, w=16, h=4 gives
\* 00 00 00 17 00 0A 00 0D 01.
C6_WindowBytes ==
    (Returned("update_partial_frame") /\ arg.w >= 1 /\ arg.h >= 1) =>
        LET x == arg.x
            y == arg.y
            r == arg.x + arg.w - 1
            b == arg.y + arg.h - 1
        IN  PartialWindow(bus) =
                Bytes(<< (x \div 256) % 256,
                         (x % 256) - (x % 8),
                         (r \div 256) % 256,
                         (r % 256) - (r % 8) + 7,
                         (y \div 256) % 256,
                         y % 256,
                         (b \div 256) % 256,
                         b % 256,
                         1 >>)

\* C7 as stated: update_partial_frame with a buffer whose length is not
\* w/8 * h puts nothing on the bus and does not return Ok.
C7_WrongLengthRejected ==
    (op = "update_partial_frame"
     /\ PayloadLen(arg.buffer) # (arg.w \div 8) * arg.h) =>
        bus = <<>> /\ result # "Ok"

\* C8 as stated: while the controller is in deep sleep, a call other than
\* wake_up puts nothing on the bus and returns an error.  (asleep is set
\* when sleep returns Ok, so a call in progress while asleep is a later one;
\* set_background_color never touches the controller.)
C8_InertWhileAsleep ==
    asleep =>
        /\ pc >= 1 => bus = <<>>
        /\ (pc = 0 /\ op \notin {"sleep", "set_background_color"}) =>
               bus = <<>> /\ result = "Err"

\* C9: every successful sleep has put on the bus exactly:
\* VCOM_AND_DATA_INTERVAL_SETTING 17, VCM_DC_SETTING, PANEL_SETTING,
\* POWER_SETTING 00 00 00 00, POWER_OFF, wait-until-idle, DEEP_SLEEP A5 (and
\* a closing wait-until-idle); so the last two commands are POWER_OFF and
\* DEEP_SLEEP with a wait between them and no command after DEEP_SLEEP.
C9_SleepSequence ==
    Returned("sleep") =>
        /\ bus = << Cmd("VCOM_AND_DATA_INTERVAL_SETTING"), Run(23, 1),
                    Cmd("VCM_DC_SETTING"),
                    Cmd("PANEL_SETTING"),
                    Cmd("POWER_SETTING"), Run(0, 4),
                    Cmd("POWER_OFF"),
                    WaitIdle,
                    Cmd("DEEP_SLEEP"), Run(165, 1),
                    WaitIdle >>
        /\ \E i, j \in 1..Len(bus) :
              /\ i < j
              /\ bus[i] = Cmd("POWER_OFF")
              /\ bus[j] = Cmd("DEEP_SLEEP")
              /\ \E m \in (i + 1)..(j - 1) : bus[m] = WaitIdle
              /\ \A m \in (i + 1)..Len(bus) : m # j => bus[m].k # "cmd"

C9_Witness == Returned("sleep") /\ asleep /\ HasCmd(bus, "DEEP_SLEEP")

\* C10: set_lut(opt) stores opt when it is present (from its first
\* statement on) and leaves the stored RefreshLUT alone when it is absent;
\* in both cases a successful set_lut has put on the bus exactly
\* LUT_FOR_VCOM, LUT_WHITE_TO_WHITE, LUT_BLACK_TO_WHITE, LUT_WHITE_TO_BLACK,
\* LUT_BLACK_TO_BLACK, each with the table of the bundle now stored, and a
\* wait-until-idle.
C10_SetLut ==
    /\ [](/\ (op = "set_lut" /\ arg.opt # "None" /\ pc # 1) =>
                 refresh = arg.opt
          /\ Returned("set_lut") => bus = LutTrace(refresh) \o << WaitIdle >>)
    /\ [][(op' = "set_lut" /\ arg'.opt = "None") => refresh' = refresh]_vars

C10_Witness ==
    /\ Returned("set_lut")
    /\ arg.opt = "None"
    /\ refresh = "QUICK"
    /\ bus = LutTrace("QUICK") \o << WaitIdle >>

\* what the call in progress puts on the bus when every write succeeds
FullTrace == EmitAll(<<>>, Program)

\* a holds the first bytes and events of b: whole items of b, the last one
\* possibly a shorter run of the same data byte
BytePrefix(a, b) ==
    /\ Len(a) <= Len(b)
    /\ \A i \in 1..Len(a) :
          \/ a[i] = b[i]
          \/ /\ i = Len(a)
             /\ a[i].k = "data" /\ b[i].k = "data"
             /\ a[i].b = b[i].b /\ a[i].n <= b[i].n

\* C11: when an SPI write fails the call is over with the error; what is on
\* the bus is a proper beginning of what the call would have sent, each
\* write at most once (nothing after the failed write, no retry); the step
\* that fails leaves the stored color and RefreshLUT as they were; and
\* nothing more goes on the bus until another call starts.
C11_SpiFailure ==
    /\ [](result = "Err" =>
             /\ pc = 0
             /\ BytePrefix(bus, FullTrace)
             /\ bus # FullTrace)
    /\ [][(result' = "Err" /\ result # "Err") =>
             color' = color /\ refresh' = refresh]_vars
    /\ [][result = "Err" => (result' # "Err" /\ bus' = <<>>)]_vars

C11_Witness ==
    /\ result = "Err"
    /\ op = "update_frame"
    /\ color = "Black"
    /\ refresh = "QUICK"
    /\ bus # <<>>
    /\ bus[Len(bus)] = Run(0, 14999)

\* the bytes of a payload, one by one
RECURSIVE Unpack(_)
Unpack(payload) ==
    IF payload = <<>> THEN <<>>
    ELSE [i \in 1..Head(payload).n |-> Head(payload).b]
         \o Unpack(Tail(payload))

\* the window of the partial update is on the bus completely
WindowSent ==
    /\ op = "update_partial_frame"
    /\ HasCmd(bus, "DATA_START_TRANSMISSION_2")

WindowBytes == Unpack(PartialWindow(bus))

\* C14: whatever x and w are, the low byte of the left edge sent after
\* PARTIAL_WINDOW has its low three bits clear and the low byte of the right
\* edge has its low three bits set.
C14_WindowAligned ==
    WindowSent =>
        /\ Len(WindowBytes) = 9
        /\ WindowBytes[2] % 8 = 0
        /\ WindowBytes[4] % 8 = 7

C14_Witness ==
    /\ Returned("update_partial_frame")
    /\ arg.x = 3
    /\ arg.w = 16
    /\ WindowBytes[2] = 0
    /\ WindowBytes[4] = 15

\* how often command c is on the bus
RECURSIVE CountCmd(_, _)
CountCmd(tr, c) ==
    IF tr = <<>> THEN 0
    ELSE (IF Head(tr) = Cmd(c) THEN 1 ELSE 0) + CountCmd(Tail(tr), c)

\* C15: every successful update_partial_frame has put on the bus exactly:
\* PARTIAL_IN, PARTIAL_WINDOW and nine data bytes, DATA_START_TRANSMISSION_2
\* (never DATA_START_TRANSMISSION_1) and the bytes of buf, PARTIAL_OUT,
\* wait-until-idle; PARTIAL_IN and PARTIAL_OUT are on the bus of no other
\* call, and a call that returns Ok has sent as many of the one as of the
\* other, so every PARTIAL_IN is closed before another call's commands.
C15_PartialSequence ==
    /\ Returned("update_partial_frame") =>
          /\ HasCmd(bus, "DATA_START_TRANSMISSION_2")
          /\ LET d == CmdAt(bus, "DATA_START_TRANSMISSION_2")
             IN
                /\ SubSeq(bus, 1, 2) = << Cmd("PARTIAL_IN"), Cmd("PARTIAL_WINDOW") >>
                /\ \A i \in 3..(d - 1) : bus[i].k = "data"
                /\ PayloadLen(SubSeq(bus, 3, d - 1)) = 9
                /\ SubSeq(bus, d + 1, Len(bus)) =
                       arg.buffer \o << Cmd("PARTIAL_OUT"), WaitIdle >>
                /\ CountCmd(bus, "PARTIAL_IN") = 1
                /\ CountCmd(bus, "PARTIAL_OUT") = 1
                /\ ~HasCmd(bus, "DATA_START_TRANSMISSION_1")
    /\ (HasCmd(bus, "PARTIAL_IN") \/ HasCmd(bus, "PARTIAL_OUT")) =>
          op = "update_partial_frame"
    /\ (pc = 0 /\ result = "Ok") =>
          CountCmd(bus, "PARTIAL_IN") = CountCmd(bus, "PARTIAL_OUT")

C15_Witness ==
    /\ Returned("update_partial_frame")
    /\ arg.buffer = Bytes(<<1, 2, 3>>)
    /\ bus[Len(bus) - 1] = Cmd("PARTIAL_OUT")

\* C16: a successful wake_up has put on the bus exactly the init sequence
\* with the stored bundle; neither sleep nor wake_up changes the stored
\* color or RefreshLUT, at their start or at any of their steps; and an
\* update_frame or clear_frame fills the old frame with the byte of the
\* stored color, 0x00 when it is Black.
C16_WakeUpKeepsSettings ==
    /\ [](Returned("wake_up") =>
             bus = InitTrace(refresh) /\ Len(bus) = 27)
    /\ [][op' \in {"sleep", "wake_up"} =>
             color' = color /\ refresh' = refresh]_vars
    /\ []((Returned("update_frame") \/ Returned("clear_frame")) =>
             LET d == CmdAt(bus, "DATA_START_TRANSMISSION_1") IN
             bus[d + 1] = Run(IF color = "Black" THEN 0 ELSE 255, 15000))

C16_Witness ==
    /\ Returned("wake_up")
    /\ refresh = "QUICK"
    /\ color = "Black"
    /\ \E i \in 1..Len(bus) : bus[i] = Tbl("LUT_VCOM0_QUICK")
    /\ \A i \in 1..Len(bus) : bus[i] # Tbl("LUT_VCOM0")

\* C18 as stated: in update_partial_frame neither (x & 0xf8) + w - 1 nor
\* y + h - 1 leaves the u32 range, so the call never panics and never sends
\* a wrapped-around edge.
C18_NoOverflow ==
    op = "update_partial_frame" =>
        /\ result # "Panic"
        /\ \A i \in 1..Len(Program) :
              Program[i].i = "arith" => Program[i].n = 0

\* C19 as stated: for a window inside the panel (w >= 1, h >= 1,
\* x + w <= 400, y + h <= 300) the edges sent, read as 16-bit big-endian,
\* contain it: left <= x, right >= x + w - 1, left <= right, top = y,
\* bottom = y + h - 1.
C19_WindowContains ==
    (WindowSent /\ arg.w >= 1 /\ arg.h >= 1
     /\ arg.x + arg.w <= 400 /\ arg.y + arg.h <= 300) =>
        LET wb     == WindowBytes
            left   == wb[1] * 256 + wb[2]
            right  == wb[3] * 256 + wb[4]
            top    == wb[5] * 256 + wb[6]
            bottom == wb[7] * 256 + wb[8]
        IN  /\ left <= arg.x
            /\ right >= arg.x + arg.w - 1
            /\ left <= right
            /\ top = arg.y
            /\ bottom = arg.y + arg.h - 1


---------------------------------------------------------------------------
(* The framebuffer's properties, under FbSpec *)

PanelWidth(panel) == IF panel = "epd4in2" THEN WIDTH ELSE EPD2IN9_WIDTH
PanelHeight(panel) == IF panel = "epd4in2" THEN HEIGHT ELSE EPD2IN9_HEIGHT

\* C12: the framebuffer generated for a panel has width/8 * height bytes of
\* that panel's own width and height, at all times, and a fresh one holds the
\* panel's default background byte everywhere and rotation Rot0.
C12_BufferSize ==
    derived # "none" =>
        /\ display2in9.buffer.len
              = (PanelWidth(derived) \div 8) * PanelHeight(derived)
        /\ drawn.n = 0 =>
              /\ display2in9.buffer.diff = <<>>
              /\ display2in9.buffer.fill
                    = get_byte_value(DEFAULT_BACKGROUND_COLOR)

\* C13: a draw of one pixel changes the buffer exactly as the rotation table
\* says for the panel's own width and height: the one selected bit is set
\* (White) or cleared (Black), or nothing at all when the pixel is outside.
C13_SetPixel ==
    (derived # "none" /\ drawn.n > 0) =>
        display2in9.buffer
          = draw_helper(drawn.before, PanelWidth(derived), PanelHeight(derived),
                        drawn.rotation, drawn.pixel)


---------------------------------------------------------------------------
(* Pin failures, under PinSpec *)

\* C17: a call in which a GPIO read or write failed does not return Ok: the
\* failure is surfaced to the caller as a pin error of that call.
C17_PinFailureSurfaced ==
    (pc = 0 /\ pin_failed) => result # "Ok"

---------------------------------------------------------------------------
(* Termination, under LiveSpec *)

\* C20: when every SPI write returns and the busy line eventually reads
\* idle, every driver call that was started eventually returns to its caller,
\* with Ok or with the SPI error.
C20_EveryCallReturns ==
    (pc >= 1) ~> (pc = 0 /\ result \in {"Ok", "Err"})

\* under the same assumption every call ends, by a return or by a panic
EveryCallEnds == (pc >= 1) ~> (pc = 0)

\* wait-until-idle has no timeout: while a call waits, the busy pin can be
\* read busy once more, however often it has been read busy before
NoPollTimeout ==
    (Running /\ Instr.i = "wait") => ENABLED PollBusy

====
